---- MODULE Spec2Model ----
(***************************************************************************)
(* Model of the forecasting core of job-forecaster:                        *)
(*   src/backend/forecasting.py      JobForecaster (orchestrator, scoring) *)
(*   src/backend/forecast_models.py  ProphetForecaster, XGBoostForecaster, *)
(*                                   EnsembleForecaster                    *)
(*                                                                         *)
(* Number representation.  Python floats are modelled by exact rationals:  *)
(*   - values produced by the Prophet / XGBoost libraries are integers in  *)
(*     TENTHS (1305 stands for 130.5), so that int() truncation toward     *)
(*     zero is visible;                                                    *)
(*   - confidences are integers in HUNDREDTHS (9700 stands for 97.0),      *)
(*     the resolution of round(x, 2).                                      *)
(* The numerical output of the two libraries is not computed: a fit is a   *)
(* nondeterministic choice among bounded families of outcomes (including   *)
(* "throws").                                                              *)
(*                                                                         *)
(* Three specifications share the variables:                               *)
(*   Spec      one forecast_skill_demand request at a time;                *)
(*   SpecCall  the scoring functions, the combiner and the explainer       *)
(*             called on their own (percentages and scores in HUNDREDTHS); *)
(*   SpecConc  two requests inside calculate_growth_rate at the same time, *)
(*             drawing from numpy's process-wide random generator.         *)
(***************************************************************************)
EXTENDS Integers, Sequences, FiniteSets, TLC

VARIABLES
    ML_MODELS_AVAILABLE,  \* forecasting.py:24-30, module flag
    PROPHET_AVAILABLE,    \* forecasting.py:16-21, module flag
    xgb_import,           \* outcome of "import xgboost" in XGBoostForecaster.__init__
    historical,           \* list of counts returned by _get_skill_historical_data
    periods,              \* argument of forecast_skill_demand
    use_ensemble,         \* argument of forecast_skill_demand
    pc,                   \* position inside forecast_skill_demand
    calls,                \* backends invoked by the current call, in order
    ensemble_result,      \* forecasting.py:451, what ensemble.fit_forecast returned
    result,               \* value returned to the caller (or none yet)
    fn,                   \* function of the core called on its own, or "idle"
    args,                 \* its arguments (and the aggregates it reads from the db)
    ret,                  \* its return value
    rng,                  \* position of numpy's process-wide random stream
    th                    \* concurrent requests: each one's locals

vars == <<ML_MODELS_AVAILABLE, PROPHET_AVAILABLE, xgb_import, historical,
          periods, use_ensemble, pc, calls, ensemble_result, result,
          fn, args, ret, rng, th>>

\* the variables of forecast_skill_demand
core == <<ML_MODELS_AVAILABLE, PROPHET_AVAILABLE, xgb_import, historical,
          periods, use_ensemble, pc, calls, ensemble_result, result>>

\* the variables of a function called on its own
call == <<fn, args, ret>>

\* the variables of concurrent requests
conc == <<rng, th>>

env == <<ML_MODELS_AVAILABLE, PROPHET_AVAILABLE, xgb_import>>

request == <<historical, periods, use_ensemble>>

----------------------------------------------------------------------------
(* Bounds of the model *)

MaxLen == 14

MaxPeriods == 3

(* Program constants *)

MIN_REQUIRED == 3

ENSEMBLE_MIN_POINTS == 6

ENSEMBLE_CONFIDENCE == 9700

STATISTICAL_CONFIDENCE == 7000

prophet_weight == 4

xgboost_weight == 6

MAX_LAG == 12

----------------------------------------------------------------------------
(* Arithmetic helpers *)

Max(a, b) == IF a >= b THEN a ELSE b

Min(a, b) == IF a <= b THEN a ELSE b

\* Python int() on a float n/d (d > 0): truncation toward zero.
TruncDiv(n, d) == IF n >= 0 THEN n \div d ELSE -((-n) \div d)

RECURSIVE SumSeq(_)
SumSeq(s) == IF s = <<>> THEN 0 ELSE Head(s) + SumSeq(Tail(s))

\* a/b <= c/d for naturals a, c and positive b, d, by continued-fraction
\* expansion (no products, so no 32-bit overflow).
RECURSIVE FracLeq(_, _, _, _)
FracLeq(a, b, c, d) ==
    LET qa == a \div b
        qc == c \div d
        ra == a % b
        rc == c % d
    IN  IF qa < qc THEN TRUE
        ELSE IF qa > qc THEN FALSE
        ELSE IF ra = 0 THEN TRUE
        ELSE IF rc = 0 THEN FALSE
        ELSE FracLeq(d, rc, b, ra)

----------------------------------------------------------------------------
(* Inputs: the histories handed to the orchestrator (line 59), oldest      *)
(* month first, so that sort_values('date') of line 72 keeps their order.  *)
(* Lengths run from 0 past ENSEMBLE_MIN_POINTS and MAX_LAG, so that every  *)
(* branch of the orchestrator and of the ensemble is exercised; counts     *)
(* rise, fall to zero, stay flat or oscillate.                             *)

HistoryBases == {0, 10, 100}

HistorySlopes == {-10, 0, 5}

HistoryWiggles == {0, 20}

\* count at 0-based position i of the history of a given shape
HistoryCount(base, slope, wiggle, i) == Max(0, base + slope * i + wiggle * (i % 2))

History(len, base, slope, wiggle) ==
    [i \in 1..len |-> HistoryCount(base, slope, wiggle, i - 1)]

Histories ==
    { History(len, b, s, w) :
        len \in 0..MaxLen, b \in HistoryBases, s \in HistorySlopes, w \in HistoryWiggles }

----------------------------------------------------------------------------
(* Outcomes of the external libraries (Prophet, XGBoost).  A fit either    *)
(* throws or yields one raw value per forecast step, in tenths.            *)

ProphetLevels == {-455, 5, 1305}

ProphetDrifts == {0, 25}

ProphetWidths == {0, 100}

XGBLevels == {-15, 0, 205}

LibThrows == [ok |-> FALSE, rows |-> <<>>]

\* model.fit / model.predict of Prophet: yhat with its interval,
\* yhat_lower <= yhat <= yhat_upper, one row per future period
ProphetFits(h) ==
    { [ok |-> TRUE,
       rows |-> [i \in 1..h |-> [yhat  |-> l + d * i,
                                 lower |-> l + d * i - w,
                                 upper |-> l + d * i + w]]] :
        l \in ProphetLevels, d \in ProphetDrifts, w \in ProphetWidths }

\* XGBRegressor.fit / predict in the recursive loop: one raw prediction per step
XGBFits(h) ==
    { [ok |-> TRUE, rows |-> [i \in 1..h |-> x]] : x \in XGBLevels }

ProphetOutcomes(h) == ProphetFits(h) \cup {LibThrows}

XGBOutcomes(h) == XGBFits(h) \cup {LibThrows}

----------------------------------------------------------------------------
(* forecast_models.py *)

None == [ok |-> FALSE, predictions |-> <<>>, lower |-> <<>>, upper |-> <<>>]

\* ProphetForecaster.fit_forecast: None when Prophet is missing or anything
\* throws, else the raw (float) predictions and interval of the future periods
ProphetForecaster_fit_forecast(available, fit) ==
    IF ~available THEN None
    ELSE IF ~fit.ok THEN None
    ELSE [ok |-> TRUE,
          predictions |-> [i \in DOMAIN fit.rows |-> fit.rows[i].yhat],
          lower |-> [i \in DOMAIN fit.rows |-> fit.rows[i].lower],
          upper |-> [i \in DOMAIN fit.rows |-> fit.rows[i].upper]]

\* mutant: lag_12 is taken to be defined one position early
NumFeatureRows_early(len) == Max(0, len - MAX_LAG + 1)

\* XGBoostForecaster.create_features: number of rows left by dropna(), the
\* positions with a defined lag_12
NumFeatureRows(len) == Max(0, len - MAX_LAG)

\* XGBoostForecaster.fit_forecast: None when xgboost is missing or anything
\* throws; with an empty feature matrix the metrics / predict on zero rows
\* throw.  Predictions are max(0, int(f)), kept in tenths.
XGBoostForecaster_fit_forecast(imp, series, fit) ==
    IF imp # "ok" THEN None
    ELSE IF NumFeatureRows(Len(series)) = 0 THEN None
    ELSE IF ~fit.ok THEN None
    ELSE [ok |-> TRUE,
          predictions |-> [i \in DOMAIN fit.rows |-> 10 * Max(0, TruncDiv(fit.rows[i], 10))],
          lower |-> <<>>,
          upper |-> <<>>]

\* one blended value int(prophet_weight * p + xgboost_weight * x), in tenths
\* (p, x in tenths; the weights in tenths)
Blend(p, x) == 10 * TruncDiv(prophet_weight * p + xgboost_weight * x, 100)

\* zip(prophet_preds, xgboost_preds): as long as the shorter list
BlendAll(pp, xp) == [i \in 1..Min(Len(pp), Len(xp)) |-> Blend(pp[i], xp[i])]

\* mutant: the fallback loop runs over range(1, periods)
TrendFallback_short(series, h) ==
    LET n == Len(series)
        last == series[n]
        twice_trend == IF n >= 3 THEN series[n] - series[n - 2] ELSE 0
    IN  [i \in 1..(h - 1) |-> 10 * Max(0, TruncDiv(2 * last + twice_trend * i, 2))]

\* fallback of EnsembleForecaster.fit_forecast when both models failed:
\* trend = (series[-1] - series[-3]) / 2, step i (1-based) is
\* max(0, int(series[-1] + trend * i)), in tenths
TrendFallback(series, h) ==
    LET n == Len(series)
        last == series[n]
        twice_trend == IF n >= 3 THEN series[n] - series[n - 2] ELSE 0
    IN  [i \in 1..h |-> 10 * Max(0, TruncDiv(2 * last + twice_trend * i, 2))]

\* EnsembleForecaster.fit_forecast, given what the two backends returned
EnsembleForecaster_fit_forecast(series, h, prophet_result, xgboost_result) ==
    LET forecast ==
            IF prophet_result.ok /\ xgboost_result.ok
            THEN BlendAll(prophet_result.predictions, xgboost_result.predictions)
            ELSE IF xgboost_result.ok THEN xgboost_result.predictions
            ELSE IF prophet_result.ok THEN prophet_result.predictions
            ELSE TrendFallback(series, h)
    IN  [forecast |-> forecast, prophet |-> prophet_result, xgboost |-> xgboost_result]

\* no ensemble.fit_forecast call has returned
NoEnsemble == [forecast |-> <<>>, prophet |-> None, xgboost |-> None]

----------------------------------------------------------------------------
(* forecasting.py: the three forecast builders of JobForecaster *)

\* mutant: the bounds are always synthesized from the point
EnsemblePoint_synth(res, i) ==
    LET pred_value == res.forecast[i]
    IN  [predicted_count |-> TruncDiv(pred_value, 10),
         lower_bound |-> TruncDiv(pred_value * 8, 100),
         upper_bound |-> TruncDiv(pred_value * 12, 100)]

\* one point of _ensemble_forecast: pred_value in tenths
EnsemblePoint(res, i) ==
    LET pred_value == res.forecast[i]
        synth_lower == TruncDiv(pred_value * 8, 100)
        synth_upper == TruncDiv(pred_value * 12, 100)
        lower == IF res.prophet.ok
                 THEN IF i <= Len(res.prophet.lower)
                      THEN TruncDiv(res.prophet.lower[i], 10) ELSE synth_lower
                 ELSE synth_lower
        upper == IF res.prophet.ok
                 THEN IF i <= Len(res.prophet.upper)
                      THEN TruncDiv(res.prophet.upper[i], 10) ELSE synth_upper
                 ELSE synth_upper
    IN  [predicted_count |-> TruncDiv(pred_value, 10),
         lower_bound |-> lower,
         upper_bound |-> upper]

\* JobForecaster._ensemble_forecast after ensemble.fit_forecast returned res
ensemble_forecast(res) == [i \in 1..Len(res.forecast) |-> EnsemblePoint(res, i)]

\* JobForecaster._prophet_forecast, given a fit that did not throw
prophet_forecast(fit) ==
    [i \in DOMAIN fit.rows |->
        [predicted_count |-> Max(0, TruncDiv(fit.rows[i].yhat, 10)),
         lower_bound |-> Max(0, TruncDiv(fit.rows[i].lower, 10)),
         upper_bound |-> Max(0, TruncDiv(fit.rows[i].upper, 10))]]

\* np.polyfit(x, y, 1) over x = 0..n-1 evaluated at k: the least-squares line
\* as an exact rational (floating-point rounding is not modelled), truncated
\* by int()
PolyfitTrunc(y, k) ==
    LET n == Len(y)
        Sx == SumSeq([i \in 1..n |-> i - 1])
        Sxx == SumSeq([i \in 1..n |-> (i - 1) * (i - 1)])
        Sy == SumSeq(y)
        Sxy == SumSeq([i \in 1..n |-> (i - 1) * y[i]])
        D == n * Sxx - Sx * Sx
        slopeNum == n * Sxy - Sx * Sy
    IN  TruncDiv(slopeNum * k * n + Sy * D - slopeNum * Sx, n * D)

\* JobForecaster._simple_forecast
simple_forecast(y, h) ==
    [i \in 1..h |->
        LET predicted_value == Max(0, PolyfitTrunc(y, Len(y) + i - 1))
        IN  [predicted_count |-> predicted_value,
             lower_bound |-> TruncDiv(predicted_value * 8, 10),
             upper_bound |-> TruncDiv(predicted_value * 12, 10)]]

\* smallest s in lo..hi with sqrt(Q/R) <= s / 30000 (hi satisfies it)
RECURSIVE CeilSqrtScaled(_, _, _, _)
CeilSqrtScaled(lo, hi, Q, R) ==
    IF lo >= hi THEN hi
    ELSE LET mid == (lo + hi) \div 2
         IN  IF FracLeq(Q, R, mid * mid, 900000000)
             THEN CeilSqrtScaled(lo, mid, Q, R)
             ELSE CeilSqrtScaled(mid + 1, hi, Q, R)

\* mutant: the history-length term is always at its maximum
calculate_confidence_flat(y) ==
    LET n == Len(y)
        m == 12
        Sy == SumSeq(y)
        Syy == SumSeq([i \in 1..n |-> y[i] * y[i]])
        Q == n * (n * Syy - Sy * Sy)
        R == (n - 1) * Sy * Sy
        S == IF Sy = 0 \/ Q >= R THEN 30000 ELSE CeilSqrtScaled(0, 30000, Q, R)
    IN  IF n < 3 THEN 0 ELSE (2500 * m + 30003 - S) \div 6

\* JobForecaster._calculate_confidence, in hundredths:
\*   round(((min(1, n/12) + max(0, 1 - std/mean)) * 100) / 2, 2)
\* with the sample standard deviation (ddof = 1); cv^2 = Q / R below.
calculate_confidence(y) ==
    LET n == Len(y)
        m == Min(12, n)
        Sy == SumSeq(y)
        Syy == SumSeq([i \in 1..n |-> y[i] * y[i]])
        Q == n * (n * Syy - Sy * Sy)
        R == (n - 1) * Sy * Sy
        \* S = ceil(30000 * min(1, cv)); cv = 1 when the mean is 0
        S == IF Sy = 0 \/ Q >= R THEN 30000 ELSE CeilSqrtScaled(0, 30000, Q, R)
    IN  IF n < 3 THEN 0 ELSE (2500 * m + 30003 - S) \div 6

----------------------------------------------------------------------------
(* forecasting.py: JobForecaster.forecast_skill_demand *)

NoResult == [kind |-> "none"]

\* the dictionary of lines 62-67
InsufficientResult(h) ==
    [kind |-> "error",
     error |-> "Insufficient historical data",
     min_required |-> MIN_REQUIRED,
     actual |-> Len(h)]

\* the dictionary of lines 120-127
ForecastResult(forecast, method, confidence) ==
    [kind |-> "forecast",
     historical |-> historical,
     forecast |-> forecast,
     method |-> method,
     periods |-> periods,
     confidence |-> confidence]

\* mutant: the threshold test is off by one
Insufficient_offbyone(h) == Len(h) < MIN_REQUIRED - 1

\* line 61
Insufficient(h) == Len(h) < MIN_REQUIRED

\* line 75
EnsembleSelected == use_ensemble /\ ML_MODELS_AVAILABLE

\* mutant: strict comparison with the ensemble threshold
EnoughForEnsemble_strict(h) == Len(h) > ENSEMBLE_MIN_POINTS

\* mutant: the ensemble threshold confused with the minimum history
EnoughForEnsemble_low(h) == Len(h) >= MIN_REQUIRED

\* line 76
EnoughForEnsemble(h) == Len(h) >= ENSEMBLE_MIN_POINTS

Return(forecast, method, confidence) ==
    /\ result' = ForecastResult(forecast, method, confidence)
    /\ pc' = "done"

\* a call of self._prophet_forecast(df, periods) followed by
\* self._calculate_confidence(df); nothing catches what Prophet throws
RunProphet(method) ==
    \E fit \in ProphetOutcomes(periods) :
        /\ calls' = Append(calls, "prophet")
        /\ IF fit.ok
           THEN Return(prophet_forecast(fit), method, calculate_confidence(historical))
           ELSE pc' = "raised" /\ UNCHANGED result

\* a call of self._simple_forecast(df, periods) with the fixed confidence
RunStatistical(method) ==
    /\ calls' = Append(calls, "statistical")
    /\ Return(simple_forecast(historical, periods), method, STATISTICAL_CONFIDENCE)

\* a caller (quick_forecast, forecast_top_skills) invokes forecast_skill_demand;
\* line 59 obtains the history
Request ==
    /\ pc = "idle"
    /\ historical' \in Histories
    /\ periods' \in 1..MaxPeriods
    /\ use_ensemble' \in BOOLEAN
    /\ calls' = <<>>
    /\ ensemble_result' = NoEnsemble
    /\ result' = NoResult
    /\ pc' = "called"
    /\ UNCHANGED env
    /\ UNCHANGED <<call, conc>>

\* lines 61-67
ReturnInsufficient ==
    /\ pc = "called"
    /\ Insufficient(historical)
    /\ result' = InsufficientResult(historical)
    /\ pc' = "done"
    /\ UNCHANGED <<env, request, calls, ensemble_result>>
    /\ UNCHANGED <<call, conc>>

\* lines 76-82 with _ensemble_forecast (440-478) and
\* EnsembleForecaster.fit_forecast (313-369) returning normally
EnsembleSucceeds ==
    /\ pc = "called"
    /\ ~Insufficient(historical)
    /\ EnsembleSelected
    /\ EnoughForEnsemble(historical)
    /\ xgb_import # "OtherError"
    /\ \E pfit \in ProphetOutcomes(periods), xfit \in XGBOutcomes(periods) :
          LET prophet_result == ProphetForecaster_fit_forecast(PROPHET_AVAILABLE, pfit)
              xgboost_result == XGBoostForecaster_fit_forecast(xgb_import, historical, xfit)
              res == EnsembleForecaster_fit_forecast(historical, periods,
                                                     prophet_result, xgboost_result)
          IN  /\ calls' = Append(calls, "ensemble")
              /\ ensemble_result' = res
              /\ Return(ensemble_forecast(res), "Ensemble (Prophet + XGBoost)",
                        ENSEMBLE_CONFIDENCE)
    /\ UNCHANGED <<env, request>>
    /\ UNCHANGED <<call, conc>>

\* lines 77-86: EnsembleForecaster() raises (XGBoostForecaster.__init__
\* catches ImportError only) and the orchestrator's except clause takes over
EnsembleRaises ==
    /\ pc = "called"
    /\ ~Insufficient(historical)
    /\ EnsembleSelected
    /\ EnoughForEnsemble(historical)
    /\ xgb_import = "OtherError"
    /\ calls' = Append(calls, "ensemble")
    /\ pc' = "ensemble_failed"
    /\ UNCHANGED <<env, request, ensemble_result, result>>
    /\ UNCHANGED <<call, conc>>

\* lines 88-92
FallbackProphet ==
    /\ pc = "ensemble_failed"
    /\ PROPHET_AVAILABLE
    /\ RunProphet("Prophet (Ensemble failed)")
    /\ UNCHANGED <<env, request, ensemble_result>>
    /\ UNCHANGED <<call, conc>>

\* lines 93-96
FallbackStatistical ==
    /\ pc = "ensemble_failed"
    /\ ~PROPHET_AVAILABLE
    /\ RunStatistical("Statistical (Ensemble & Prophet failed)")
    /\ UNCHANGED <<env, request, ensemble_result>>
    /\ UNCHANGED <<call, conc>>

\* lines 97-102
ShortProphet ==
    /\ pc = "called"
    /\ ~Insufficient(historical)
    /\ EnsembleSelected
    /\ ~EnoughForEnsemble(historical)
    /\ PROPHET_AVAILABLE
    /\ RunProphet("Prophet (insufficient data for Ensemble)")
    /\ UNCHANGED <<env, request, ensemble_result>>
    /\ UNCHANGED <<call, conc>>

\* lines 103-106
ShortStatistical ==
    /\ pc = "called"
    /\ ~Insufficient(historical)
    /\ EnsembleSelected
    /\ ~EnoughForEnsemble(historical)
    /\ ~PROPHET_AVAILABLE
    /\ RunStatistical("Statistical")
    /\ UNCHANGED <<env, request, ensemble_result>>
    /\ UNCHANGED <<call, conc>>

\* lines 107-112
ProphetOnly ==
    /\ pc = "called"
    /\ ~Insufficient(historical)
    /\ ~EnsembleSelected
    /\ PROPHET_AVAILABLE
    /\ RunProphet("Prophet")
    /\ UNCHANGED <<env, request, ensemble_result>>
    /\ UNCHANGED <<call, conc>>

\* lines 113-118
StatisticalOnly ==
    /\ pc = "called"
    /\ ~Insufficient(historical)
    /\ ~EnsembleSelected
    /\ ~PROPHET_AVAILABLE
    /\ RunStatistical("Statistical")
    /\ UNCHANGED <<env, request, ensemble_result>>
    /\ UNCHANGED <<call, conc>>

\* the call is over (quick_forecast, lines 490-493, hands the dictionary or
\* the exception on); its forecaster and locals are dropped
Finish ==
    /\ pc \in {"done", "raised"}
    /\ historical' = <<>>
    /\ periods' = 1
    /\ use_ensemble' = TRUE
    /\ calls' = <<>>
    /\ ensemble_result' = NoEnsemble
    /\ result' = NoResult
    /\ pc' = "idle"
    /\ UNCHANGED env
    /\ UNCHANGED <<call, conc>>

\* no function of the core is being called on its own
NoArgs == [series |-> <<>>]

NoReturn == [raised |-> FALSE, value |-> 0]

\* the two requests that may run at the same time
Threads == {1, 2}

\* a request thread that has not started
IdleThread == [pc |-> "idle", total_count |-> 0, start |-> 0,
               historical |-> <<>>, growth |-> 0]

Init ==
    /\ ML_MODELS_AVAILABLE \in BOOLEAN
    /\ PROPHET_AVAILABLE \in BOOLEAN
    /\ xgb_import \in {"ok", "ImportError", "OtherError"}
    /\ historical = <<>>
    /\ periods = 1
    /\ use_ensemble = TRUE
    /\ pc = "idle"
    /\ calls = <<>>
    /\ ensemble_result = NoEnsemble
    /\ result = NoResult
    /\ fn = "idle"
    /\ args = NoArgs
    /\ ret = NoReturn
    /\ rng = 0
    /\ th = [t \in Threads |-> IdleThread]

Next ==
    \/ Request
    \/ ReturnInsufficient
    \/ EnsembleSucceeds
    \/ EnsembleRaises
    \/ FallbackProphet
    \/ FallbackStatistical
    \/ ShortProphet
    \/ ShortStatistical
    \/ ProphetOnly
    \/ StatisticalOnly
    \/ Finish

Spec == Init /\ [][Next]_vars

TypeOK ==
    /\ pc \in {"idle", "called", "ensemble_failed", "done", "raised"}
    /\ periods \in 1..MaxPeriods
    /\ historical \in Histories

----------------------------------------------------------------------------
(* Properties *)

Terminal == pc \in {"done", "raised"}

Returned == pc = "done" /\ result.kind = "forecast"

\* the except clause of lines 83-96 has run: the ensemble call raised
EnsembleRaised == Len(calls) >= 2 /\ calls[1] = "ensemble"

\* C1: with fewer than 3 history points forecast_skill_demand returns the
\* insufficient-data dictionary (error, min_required = 3, actual = number of
\* points), without a forecast, and no backend is invoked before it returns.
C1_InsufficientData ==
    Len(historical) < 3 =>
        /\ calls = <<>>
        /\ pc \in {"idle", "called", "done"}
        /\ pc = "done" =>
              /\ result.kind = "error"
              /\ result.error = "Insufficient historical data"
              /\ result.min_required = 3
              /\ result.actual = Len(historical)
              /\ "forecast" \notin DOMAIN result

C1_Witness ==
    /\ pc = "done"
    /\ Len(historical) = 2
    /\ result.kind = "error"
    /\ result.actual = 2
    /\ calls = <<>>

\* C2: every returned forecast (history of at least 3 points, periods >= 1)
\* has exactly `periods` points, whatever path produced it.
C2_ForecastLength ==
    Returned =>
        /\ Len(historical) >= 3
        /\ Len(result.forecast) = periods

C2_Witness ==
    /\ Returned
    /\ ensemble_result.prophet.ok
    /\ ensemble_result.xgboost.ok
    /\ periods = 3
    /\ Len(result.forecast) = 3

C4_NonNegative ==
    Returned =>
        \A i \in DOMAIN result.forecast : result.forecast[i].predicted_count >= 0

\* C5: with at least 3 history points forecast_skill_demand never lets an
\* exception out: every call ends by returning a forecast.
C5_NeverPropagates ==
    Len(historical) >= 3 =>
        /\ pc # "raised"
        /\ pc = "done" => result.kind = "forecast"

\* C6: after the ensemble call raised, the seasonal backend is tried first
\* when available, and when it is unavailable or fails the statistical
\* fallback produces the forecast; the label and the confidence follow the
\* backend that produced it (seasonal: computed, statistical: 70).
C6_FallbackChain ==
    (Terminal /\ EnsembleRaised) =>
        /\ PROPHET_AVAILABLE => calls[2] = "prophet"
        /\ Returned
        /\ IF calls[Len(calls)] = "prophet"
           THEN /\ result.method = "Prophet (Ensemble failed)"
                /\ result.confidence = calculate_confidence(historical)
           ELSE /\ calls[Len(calls)] = "statistical"
                /\ result.method = "Statistical (Ensemble & Prophet failed)"
                /\ result.confidence = 7000

\* C7: with at least 6 history points, the ensemble selected (use_ensemble and
\* ML_MODELS_AVAILABLE, line 75) and the ensemble call not raising, the call
\* returns the ensemble combiner's forecast labelled
\* 'Ensemble (Prophet + XGBoost)' with confidence 97.
C7_EnsembleLabel ==
    (/\ Terminal
     /\ Len(historical) >= 6
     /\ use_ensemble
     /\ ML_MODELS_AVAILABLE
     /\ ~EnsembleRaised) =>
        /\ Returned
        /\ calls = <<"ensemble">>
        /\ result.method = "Ensemble (Prophet + XGBoost)"
        /\ result.confidence = 9700
        /\ result.forecast = ensemble_forecast(ensemble_result)

C7_Witness ==
    /\ Returned
    /\ Len(historical) = 6
    /\ use_ensemble
    /\ ML_MODELS_AVAILABLE
    /\ calls = <<"ensemble">>
    /\ result.method = "Ensemble (Prophet + XGBoost)"
    /\ result.confidence = 9700

\* C8: history [100,105,110,115,120,125], periods = 3, ensemble selected:
\* method contains 'Ensemble', confidence 97, 3 points, each >= 120.
C8_EndToEnd ==
    (/\ Terminal
     /\ historical = <<100, 105, 110, 115, 120, 125>>
     /\ periods = 3
     /\ use_ensemble
     /\ ML_MODELS_AVAILABLE) =>
        /\ Returned
        /\ result.method = "Ensemble (Prophet + XGBoost)"
        /\ result.confidence = 9700
        /\ Len(result.forecast) = 3
        /\ \A i \in 1..3 : result.forecast[i].predicted_count >= 120

\* C9: with 3, 4 or 5 history points the ensemble is never used: the seasonal
\* backend alone runs when PROPHET_AVAILABLE (confidence from
\* _calculate_confidence), otherwise the statistical fallback (confidence 70);
\* the method label names the path.
C9_ShortHistory ==
    (Terminal /\ Len(historical) \in 3..5) =>
        /\ ensemble_result = NoEnsemble
        /\ IF PROPHET_AVAILABLE
           THEN /\ calls = <<"prophet">>
                /\ Returned =>
                      /\ result.method \in {"Prophet", "Prophet (insufficient data for Ensemble)"}
                      /\ result.method = "Prophet" <=> ~(use_ensemble /\ ML_MODELS_AVAILABLE)
                      /\ result.confidence = calculate_confidence(historical)
                      /\ historical = <<10, 10, 10>> => result.confidence = 6250
                      /\ historical = <<10, 30, 10, 30, 10>> => result.confidence = 4040
           ELSE /\ calls = <<"statistical">>
                /\ Returned
                /\ result.method = "Statistical"
                /\ result.confidence = 7000
                /\ result.forecast = simple_forecast(historical, periods)

C9_Witness ==
    /\ Returned
    /\ historical = <<10, 30, 10, 30, 10>>
    /\ PROPHET_AVAILABLE
    /\ use_ensemble
    /\ ML_MODELS_AVAILABLE
    /\ calls = <<"prophet">>
    /\ result.method = "Prophet (insufficient data for Ensemble)"
    /\ result.confidence = 4040

\* C10: when neither the boosted nor the seasonal library is available, every
\* forecast for a history of at least 3 points comes from the statistical
\* fallback only and carries the confidence 70.
C10_StatisticalOnly ==
    (/\ Terminal
     /\ Len(historical) >= 3
     /\ ~PROPHET_AVAILABLE
     /\ xgb_import = "ImportError") =>
        /\ Returned
        /\ calls = <<"statistical">>
        /\ result.confidence = 7000

----------------------------------------------------------------------------
(* The functions of the core called on their own: one call at a time, the
   arguments drawn from bounded sets, the return value as the code computes it *)

\* EnsembleForecaster.fit_forecast(series, periods) on a constructed
\* EnsembleForecaster (the constructor returned, so importing xgboost did
\* not fail with anything but ImportError).  With both backends failed the
\* fallback reads series.iloc[-1], an IndexError on an empty series.
Call_fit_forecast ==
    /\ fn = "idle"
    /\ xgb_import # "OtherError"
    /\ \E series \in Histories, h \in 1..MaxPeriods :
       \E pfit \in ProphetOutcomes(h), xfit \in XGBOutcomes(h) :
          LET prophet_result == ProphetForecaster_fit_forecast(PROPHET_AVAILABLE, pfit)
              xgboost_result == XGBoostForecaster_fit_forecast(xgb_import, series, xfit)
          IN  /\ fn' = "fit_forecast"
              /\ args' = [series |-> series, periods |-> h]
              /\ ret' = IF ~prophet_result.ok /\ ~xgboost_result.ok /\ Len(series) = 0
                        THEN [raised |-> TRUE, value |-> 0]
                        ELSE [raised |-> FALSE,
                              value |-> EnsembleForecaster_fit_forecast(
                                            series, h, prophet_result, xgboost_result)]
    /\ UNCHANGED <<core, conc>>

\* mutant: the quotient is cut off instead of rounded
round_floor(num, den) == num \div den

\* round(num / den) for den > 0: the nearest integer, a tie going to the even
\* one.  Used for round(x, 2) with x in hundredths.
round(num, den) ==
    LET q == num \div den
        r == num % den
    IN  IF 2 * r < den THEN q
        ELSE IF 2 * r > den THEN q + 1
        ELSE IF q % 2 = 0 THEN q ELSE q + 1

\* the monthly counts a growth window is made of
WindowCounts == {0, 10, 20}

\* months=6 in calculate_growth_rate
GROWTH_WINDOW == 6

\* what _get_skill_historical_data(skill_name, months=6) may hand over: up to
\* six monthly counts, oldest first
Windows == UNION { [1..len -> WindowCounts] : len \in 0..GROWTH_WINDOW }

\* JobForecaster.calculate_growth_rate, from the window on: a percentage in
\* hundredths (100.0 is 10000)
calculate_growth_rate(hist) ==
    LET n == Len(hist)
        recent == SumSeq(SubSeq(hist, n - 2, n))
        previous == SumSeq(SubSeq(hist, 1, 3))
    IN  IF n < GROWTH_WINDOW THEN 0
        ELSE IF previous = 0 THEN 10000
        ELSE round((recent - previous) * 10000, previous)

Call_calculate_growth_rate ==
    /\ fn = "idle"
    /\ \E hist \in Windows :
          /\ fn' = "calculate_growth_rate"
          /\ args' = [series |-> hist]
          /\ ret' = [raised |-> FALSE, value |-> calculate_growth_rate(hist)]
    /\ UNCHANGED <<core, conc>>

\* JobForecaster._calculate_confidence(df) with df built from a history
Call_calculate_confidence ==
    /\ fn = "idle"
    /\ \E series \in Histories :
          /\ fn' = "calculate_confidence"
          /\ args' = [series |-> series]
          /\ ret' = [raised |-> FALSE, value |-> calculate_confidence(series)]
    /\ UNCHANGED <<core, conc>>

\* func.avg(...).scalar(): None on no rows, else the average (in thousands)
Averages == {[none |-> TRUE, v |-> 0]} \cup
            {[none |-> FALSE, v |-> a] : a \in {0, 50, 100, 150, 300}}

\* Python's `not x` on an average: true for None and for 0
falsy(x) == x.none \/ x.v = 0

\* JobForecaster._calculate_salary_premium from the two averages it queries.
\* The result is not rounded: it is kept as the fraction num / den.
\* 50 + (((s - o) / o) * 100) / 2 = 50 * s / o.
calculate_salary_premium(skill_avg, overall_avg) ==
    IF falsy(skill_avg) \/ falsy(overall_avg) \/ overall_avg.v = 0
    THEN [num |-> 50, den |-> 1]
    ELSE LET s == skill_avg.v
             o == overall_avg.v
         IN  IF 50 * s > 100 * o THEN [num |-> 100, den |-> 1]
             ELSE IF 50 * s < 0 THEN [num |-> 0, den |-> 1]
             ELSE [num |-> 50 * s, den |-> o]

Call_calculate_salary_premium ==
    /\ fn = "idle"
    /\ \E skill_avg \in Averages, overall_avg \in Averages :
          /\ fn' = "calculate_salary_premium"
          /\ args' = [series |-> <<>>, skill_avg |-> skill_avg, overall_avg |-> overall_avg]
          /\ ret' = [raised |-> FALSE,
                     value |-> calculate_salary_premium(skill_avg, overall_avg)]
    /\ UNCHANGED <<core, conc>>

\* rows of the skills table and job_skills rows per skill
MaxSkills == 2

MaxJobs == 3

\* skill_name is not a unique column (models.py), skill_abr is
SkillNames == {"python", "sql"}

\* the skills table with the number of job_skills rows of each skill_abr;
\* the position in the sequence stands for the skill_abr
Databases ==
    UNION { [1..k -> [skill_name : SkillNames, jobs : 0..MaxJobs]] : k \in 0..MaxSkills }

\* count(JobSkill.id) joined with Skill and filtered by Skill.skill_name
skill_jobs(db, skill_name) ==
    SumSeq([i \in 1..Len(db) |->
                IF db[i].skill_name = skill_name THEN db[i].jobs ELSE 0])

\* the largest count(JobSkill.id) grouped by JobSkill.skill_abr; no group
\* when there is no job_skills row, and then max_count is 1
max_count(db) ==
    LET groups == { db[i].jobs : i \in { j \in 1..Len(db) : db[j].jobs > 0 } }
    IN  IF groups = {} THEN 1
        ELSE CHOOSE g \in groups : \A o \in groups : o <= g

\* JobForecaster._calculate_demand_score, in hundredths
calculate_demand_score(db, skill_name) ==
    IF max_count(db) > 0
    THEN round(skill_jobs(db, skill_name) * 10000, max_count(db))
    ELSE 0

Call_calculate_demand_score ==
    /\ fn = "idle"
    /\ \E db \in Databases, skill_name \in SkillNames :
          /\ fn' = "calculate_demand_score"
          /\ args' = [series |-> <<>>, db |-> db, skill_name |-> skill_name]
          /\ ret' = [raised |-> FALSE, value |-> calculate_demand_score(db, skill_name)]
    /\ UNCHANGED <<core, conc>>

\* alpha, beta, gamma, delta of calculate_hotness_score, in tenths
DefaultWeights == [alpha |-> 3, beta |-> 3, gamma |-> 2, delta |-> 2]

\* the defaults and weights a caller passes instead (floats the function
\* takes as they are)
Weights ==
    { DefaultWeights,
      [alpha |-> 10, beta |-> 10, gamma |-> 10, delta |-> 10],
      [alpha |-> 2, beta |-> 2, gamma |-> 2, delta |-> 2],
      [alpha |-> 4, beta |-> 4, gamma |-> 1, delta |-> 1] }

\* what the four queries of calculate_hotness_score return: the job count,
\* and in hundredths the growth rate, the salary premium and the demand score
Volumes == {0, 7, 100, 250}

GrowthRates == {-10000, -5000, -3333, 0, 3333, 10000}

SalaryPremiums == {0, 2500, 5000, 10000}

DemandScores == {0, 2500, 5000, 16667}

\* the normalisations of calculate_hotness_score, in hundredths
volume_norm(volume) == Min(10000, 100 * volume)

growth_norm(growth) == Min(10000, Max(0, growth + 5000))

salary_norm(salary_premium) == Min(10000, salary_premium)

demand_norm(demand_score) == Min(10000, demand_score)

\* mutant: the salary term is subtracted
weighted_hotness_minus(v, g, sp, d, w) ==
    round(w.alpha * v + w.beta * g - w.gamma * sp + w.delta * d, 10)

\* round(alpha * v + beta * g + gamma * sp + delta * d, 2) on normalised
\* components, in hundredths
weighted_hotness(v, g, sp, d, w) ==
    round(w.alpha * v + w.beta * g + w.gamma * sp + w.delta * d, 10)

\* JobForecaster.calculate_hotness_score from the values it queries
calculate_hotness_score(volume, growth, salary_premium, demand_score, w) ==
    weighted_hotness(volume_norm(volume), growth_norm(growth),
                     salary_norm(salary_premium), demand_norm(demand_score), w)

Call_calculate_hotness_score ==
    /\ fn = "idle"
    /\ \E volume \in Volumes, growth \in GrowthRates,
          salary_premium \in SalaryPremiums, demand_score \in DemandScores,
          w \in Weights :
          /\ fn' = "calculate_hotness_score"
          /\ args' = [series |-> <<>>, volume |-> volume, growth |-> growth,
                      salary_premium |-> salary_premium,
                      demand_score |-> demand_score, weights |-> w]
          /\ ret' = [raised |-> FALSE,
                     value |-> calculate_hotness_score(volume, growth, salary_premium,
                                                       demand_score, w)]
    /\ UNCHANGED <<core, conc>>

\* series handed to the explainer (only series.iloc[-1] is read) and the
\* forecast['forecast'] lists, whose first value is in tenths
ExplainSeries == { <<>>, <<0>>, <<20>>, <<35, 100>> }

ExplainForecasts ==
    { <<>> } \cup
    { <<f, f>> : f \in {0, 190, 200, 210, 240, 250, 940, 949, 950, 951, 1000,
                        1049, 1050, 1051, 1199, 1200, 1201, 2400} }

\* ForecastExplainer.generate_explanation, the 'trend' it reports.
\* change_pct = num / den with the forecast value in tenths.
trend_of(series, forecast) ==
    LET recent_value == series[Len(series)]
        forecast_value == IF Len(forecast) > 0 THEN forecast[1] ELSE 10 * recent_value
        num == 100 * (forecast_value - 10 * recent_value)
        den == 10 * recent_value
        above(k) == IF recent_value > 0 THEN num > k * den ELSE 0 > k
    IN  IF above(20) THEN "Strong Uptrend"
        ELSE IF above(5) THEN "Moderate Growth"
        ELSE IF above(-5) THEN "Stable"
        ELSE "Declining"

\* series.iloc[-1] raises IndexError on an empty series
Call_generate_explanation ==
    /\ fn = "idle"
    /\ \E series \in ExplainSeries, forecast \in ExplainForecasts :
          /\ fn' = "generate_explanation"
          /\ args' = [series |-> series, forecast |-> forecast]
          /\ ret' = IF Len(series) = 0
                    THEN [raised |-> TRUE, value |-> "IndexError"]
                    ELSE [raised |-> FALSE, value |-> trend_of(series, forecast)]
    /\ UNCHANGED <<core, conc>>

\* the missing value pandas puts where a shift, diff or rolling window has
\* no data; no count, difference or sum of the model reaches it
NaN == -1000000

\* df['value'].shift(k) at 1-based position p
shift(series, p, k) == IF p - k >= 1 THEN series[p - k] ELSE NaN

\* df['value'].diff(k) at position p
diff(series, p, k) == IF p - k >= 1 THEN series[p] - series[p - k] ELSE NaN

\* df['value'].rolling(w).mean() at position p, times w
rolling_sum(series, p, w) ==
    IF p >= w THEN SumSeq(SubSeq(series, p - w + 1, p)) ELSE NaN

\* df['value'].rolling(3).std() at position p, as 6 times its square
rolling_var_3(series, p) ==
    IF p >= 3
    THEN LET win == SubSeq(series, p - 2, p)
             sq == SumSeq([i \in 1..3 |-> win[i] * win[i]])
         IN  3 * sq - SumSeq(win) * SumSeq(win)
    ELSE NaN

\* the row of position p before dropna(); index is the 0-based label the
\* DataFrame keeps
FeatureRow(series, p) ==
    [index |-> p - 1,
     value |-> series[p],
     lag_1 |-> shift(series, p, 1),
     lag_3 |-> shift(series, p, 3),
     lag_6 |-> shift(series, p, 6),
     lag_12 |-> shift(series, p, 12),
     rolling_mean_3 |-> rolling_sum(series, p, 3),
     rolling_std_3 |-> rolling_var_3(series, p),
     rolling_mean_6 |-> rolling_sum(series, p, 6),
     momentum_3 |-> diff(series, p, 3),
     momentum_6 |-> diff(series, p, 6)]

\* the feature columns (all but the label and the value)
FeatureColumns == {"lag_1", "lag_3", "lag_6", "lag_12", "rolling_mean_3",
                   "rolling_std_3", "rolling_mean_6", "momentum_3", "momentum_6"}

\* no column of the row is missing
NoNaN(row) == \A c \in FeatureColumns : row[c] # NaN

\* mutant: dropna() is left out
create_features_keep(series) ==
    [p \in 1..Len(series) |-> FeatureRow(series, p)]

\* XGBoostForecaster.create_features: every row, then dropna()
create_features(series) ==
    SelectSeq([p \in 1..Len(series) |-> FeatureRow(series, p)], NoNaN)

\* create_features(series); the series is read into a new DataFrame and
\* stays as it was
Call_create_features ==
    /\ fn = "idle"
    /\ \E series \in Histories :
          /\ fn' = "create_features"
          /\ args' = [series |-> series]
          /\ ret' = [raised |-> FALSE,
                     value |-> [df |-> create_features(series), series |-> series]]
    /\ UNCHANGED <<core, conc>>

\* last_features.shift(1) on the one-row frame X.iloc[-1:]: the row moves out
\* of the frame and every column of the row left behind is missing
shift_one_row(row) == [c \in FeatureColumns |-> NaN]

\* the raw predictions of the loop, in tenths
forecasts(fit) == fit.rows

\* last_features as model.predict sees it at each step of the recursive
\* loop: X.iloc[-1:] (the last feature row without 'value') at the first
\* step, then shift(1) and lag_1 = pred.  The counts of the first row are
\* plain integers, the predictions written into lag_1 are in tenths.
RECURSIVE last_features(_, _, _)
last_features(series, fit, i) ==
    IF i = 1
    THEN LET df == create_features(series)
         IN  [c \in FeatureColumns |-> df[Len(df)][c]]
    ELSE [shift_one_row(last_features(series, fit, i - 1))
              EXCEPT !.lag_1 = forecasts(fit)[i - 1]]

\* XGBoostForecaster.fit_forecast(series, periods), with the rows the loop
\* predicted from
Call_xgboost_fit_forecast ==
    /\ fn = "idle"
    /\ \E series \in Histories, h \in 1..MaxPeriods :
       \E fit \in XGBOutcomes(h) :
          LET res == XGBoostForecaster_fit_forecast(xgb_import, series, fit)
          IN  /\ fn' = "XGBoostForecaster.fit_forecast"
              /\ args' = [series |-> series, periods |-> h]
              /\ ret' = [raised |-> FALSE,
                         value |-> [result |-> res,
                                    forecasts |-> IF res.ok THEN forecasts(fit) ELSE <<>>,
                                    last_features |->
                                        IF res.ok
                                        THEN [i \in 1..h |-> last_features(series, fit, i)]
                                        ELSE <<>>]]
    /\ UNCHANGED <<core, conc>>

\* the call is over and its frame is gone
ReturnCall ==
    /\ fn # "idle"
    /\ fn' = "idle"
    /\ args' = NoArgs
    /\ ret' = NoReturn
    /\ UNCHANGED <<core, conc>>

NextCall ==
    \/ Call_fit_forecast
    \/ Call_calculate_growth_rate
    \/ Call_calculate_confidence
    \/ Call_calculate_salary_premium
    \/ Call_calculate_demand_score
    \/ Call_calculate_hotness_score
    \/ Call_generate_explanation
    \/ Call_create_features
    \/ Call_xgboost_fit_forecast
    \/ ReturnCall

SpecCall == Init /\ [][NextCall]_vars

----------------------------------------------------------------------------
(* Properties of the functions called on their own *)

\* C11: EnsembleForecaster.fit_forecast on a series with at least one point
\* does not raise and returns exactly `periods` predictions, whichever of the
\* two backends succeeded or failed
C11_NeverRaises ==
    (fn = "fit_forecast" /\ Len(args.series) >= 1)
        => /\ ~ret.raised
           /\ Len(ret.value.forecast) = args.periods

\* a one-point series, Prophet not installed and XGBoost failed: the trend
\* fallback returned a full-length forecast
C11_Witness ==
    /\ fn = "fit_forecast"
    /\ Len(args.series) = 1
    /\ args.periods >= 2
    /\ ~PROPHET_AVAILABLE
    /\ ~ret.raised
    /\ ~ret.value.prophet.ok
    /\ ~ret.value.xgboost.ok
    /\ Len(ret.value.forecast) = args.periods

\* the sums calculate_growth_rate compares, for a full window
recent_sum == SumSeq(SubSeq(args.series, 4, 6))

previous_sum == SumSeq(SubSeq(args.series, 1, 3))

\* C12 as stated: over a 6-point window calculate_growth_rate returns exactly
\* ((sum of last 3 - sum of first 3) / sum of first 3) * 100, 100.0 when the
\* first sum is zero and 0.0 on fewer than 6 points
C12_GrowthExact ==
    fn = "calculate_growth_rate" =>
        IF Len(args.series) < 6 THEN ret.value = 0
        ELSE IF previous_sum = 0 THEN ret.value = 10000
        ELSE ret.value * previous_sum = (recent_sum - previous_sum) * 10000

\* C12, amended: the returned value is that quotient rounded to 2 decimals
\* (within half a hundredth of it); 100.0 when the first sum is zero, 0.0 on
\* fewer than 6 points; [10,10,10,10,10,10] gives 0.0 and
\* [10,10,10,20,20,20] gives 100.0
C12_GrowthRounded ==
    fn = "calculate_growth_rate" =>
        /\ IF Len(args.series) < 6 THEN ret.value = 0
           ELSE IF previous_sum = 0 THEN ret.value = 10000
           ELSE LET err == ret.value * previous_sum - (recent_sum - previous_sum) * 10000
                IN  /\ 2 * err <= previous_sum
                    /\ -2 * err <= previous_sum
        /\ args.series = <<10, 10, 10, 10, 10, 10>> => ret.value = 0
        /\ args.series = <<10, 10, 10, 20, 20, 20>> => ret.value = 10000

\* a window whose quotient has no 2-decimal value: 20/30 -> 66.67
C12_Witness ==
    /\ fn = "calculate_growth_rate"
    /\ args.series = <<10, 10, 10, 10, 20, 20>>
    /\ ret.value = 6667

\* the series is one positive count repeated
ConstantPositive(y) ==
    /\ Len(y) >= 1
    /\ y[1] > 0
    /\ \A i \in DOMAIN y : y[i] = y[1]

\* C13: the confidence is 0 below 3 points; on a constant positive series it
\* never drops when a point is added, rises strictly with each added point
\* from 3 up to 12 points, and from 12 points on stays at the maximum
C13_ConfidenceGrows ==
    fn = "calculate_confidence" =>
        LET y == args.series
            n == Len(y)
        IN  /\ n < 3 => ret.value = 0
            /\ ConstantPositive(y) =>
                  LET shorter == calculate_confidence(SubSeq(y, 1, n - 1))
                  IN  /\ ret.value >= shorter
                      /\ (n >= 3 /\ n <= 12) => ret.value > shorter
                      /\ n >= 12 => ret.value = 10000

\* a constant series of 7 points, scored above the same series of 6 points
C13_Witness ==
    /\ fn = "calculate_confidence"
    /\ ConstantPositive(args.series)
    /\ Len(args.series) = 7
    /\ ret.value = 7917
    /\ calculate_confidence(SubSeq(args.series, 1, 6)) = 7500

\* C14: the salary premium is 50 when the skill's or the overall average is
\* missing or the overall average is zero; in every other case, a skill
\* average of 0 included, it is 50 + ((skill_avg - overall_avg) / overall_avg
\* * 100) / 2 clamped to [0, 100]
C14_SalaryPremium ==
    fn = "calculate_salary_premium" =>
        LET s == args.skill_avg.v
            o == args.overall_avg.v
            p == ret.value
        IN  IF args.skill_avg.none \/ args.overall_avg.none \/ o = 0
            THEN p.num = 50 * p.den
            ELSE IF 50 * s > 100 * o THEN p.num = 100 * p.den
            ELSE IF 50 * s < 0 THEN p.num = 0
            ELSE p.num * o = 50 * s * p.den

\* C15: the demand score is the skill's job count over the largest job count
\* of any skill, times 100 (to the 2 decimals returned); it lies in [0, 100]
\* and is 0 when there are no skills
C15_DemandScore ==
    fn = "calculate_demand_score" =>
        LET jobs == skill_jobs(args.db, args.skill_name)
            most == max_count(args.db)
            err == ret.value * most - jobs * 10000
        IN  /\ most > 0
            /\ 2 * err <= most /\ -2 * err <= most
            /\ ret.value >= 0 /\ ret.value <= 10000
            /\ Len(args.db) = 0 => ret.value = 0

\* C16: calculate_hotness_score returns a value in [0, 100], with the default
\* weights and with any weights the caller passes
C16_HotnessRange ==
    fn = "calculate_hotness_score" =>
        (ret.value >= 0 /\ ret.value <= 10000)

\* C17: with the default weights the returned (rounded) hotness does not drop
\* when one normalised component rises and the other three stay as they are
C17_HotnessMonotone ==
    (fn = "calculate_hotness_score" /\ args.weights = DefaultWeights) =>
        LET v == volume_norm(args.volume)
            g == growth_norm(args.growth)
            sp == salary_norm(args.salary_premium)
            d == demand_norm(args.demand_score)
            w == args.weights
        IN  /\ ret.value = weighted_hotness(v, g, sp, d, w)
            /\ \A x \in Volumes :
                  volume_norm(x) >= v => weighted_hotness(volume_norm(x), g, sp, d, w) >= ret.value
            /\ \A x \in GrowthRates :
                  growth_norm(x) >= g => weighted_hotness(v, growth_norm(x), sp, d, w) >= ret.value
            /\ \A x \in SalaryPremiums :
                  salary_norm(x) >= sp => weighted_hotness(v, g, salary_norm(x), d, w) >= ret.value
            /\ \A x \in DemandScores :
                  demand_norm(x) >= d => weighted_hotness(v, g, sp, demand_norm(x), w) >= ret.value

\* default weights, 7 jobs, growth -33.33, premium 25, demand 25: the sum
\* 17.101 is rounded to 17.1, and with premium 50 it is 22.1
C17_Witness ==
    /\ fn = "calculate_hotness_score"
    /\ args.weights = DefaultWeights
    /\ args.volume = 7
    /\ args.growth = -3333
    /\ args.salary_premium = 2500
    /\ args.demand_score = 2500
    /\ ret.value = 1710
    /\ weighted_hotness(700, 1667, 5000, 2500, DefaultWeights) = 2210

\* C18: with a positive latest value and a first forecast point, the trend is
\* strong uptrend exactly when the percent change is above 20, declining
\* exactly when it is below -5, moderate growth only from 5 to 20 and stable
\* only from -5 to 5
C18_TrendClass ==
    (/\ fn = "generate_explanation"
     /\ ~ret.raised
     /\ Len(args.forecast) > 0
     /\ args.series[Len(args.series)] > 0) =>
        LET recent_value == args.series[Len(args.series)]
            num == 100 * (args.forecast[1] - 10 * recent_value)
            den == 10 * recent_value
        IN  /\ ret.value = "Strong Uptrend" <=> num > 20 * den
            /\ ret.value = "Declining" <=> num < -5 * den
            /\ ret.value = "Moderate Growth" => (num >= 5 * den /\ num <= 20 * den)
            /\ ret.value = "Stable" => (num >= -5 * den /\ num <= 5 * den)

----------------------------------------------------------------------------
(* The label of a returned forecast *)

\* the backend whose call returned the points
LastCall == calls[Len(calls)]

\* C19: the method of a returned forecast names what produced its points:
\* 'Ensemble (Prophet + XGBoost)' a blend of both backends' outputs,
\* 'Prophet...' the seasonal backend, 'Statistical...' the statistical fallback
C19_MethodNamesBackend ==
    Returned =>
        /\ result.method = "Ensemble (Prophet + XGBoost)" =>
              /\ LastCall = "ensemble"
              /\ ensemble_result.prophet.ok
              /\ ensemble_result.xgboost.ok
        /\ result.method \in {"Prophet", "Prophet (Ensemble failed)",
                              "Prophet (insufficient data for Ensemble)"} =>
              LastCall = "prophet"
        /\ result.method \in {"Statistical", "Statistical (Ensemble & Prophet failed)"} =>
              LastCall = "statistical"

----------------------------------------------------------------------------
(* Requests served at the same time.  The handlers of main.py are plain
   functions, which the server runs in a pool of threads; numpy's
   np.random.uniform draws from one generator shared by the whole process. *)

\* job_skills rows of the skill a request is about
TotalCounts == {0, 60, 600}

\* the value np.random.uniform(0.8, 1.2) returns at position k of the
\* generator's stream, in hundredths: a fixed sequence within [0.80, 1.20)
Variation(k) == 80 + ((17 * k + 5) % 40)

\* int((total_count / months) * variation) with months = 6
MonthCount(total_count, variation) == TruncDiv(total_count * variation, 100 * GROWTH_WINDOW)

\* _get_skill_historical_data(skill, months=6) run with no other call in
\* between, the generator being at position `start`
AloneHistory(total_count, start) ==
    IF total_count = 0 THEN <<>>
    ELSE [i \in 1..GROWTH_WINDOW |-> MonthCount(total_count, Variation(start + i - 1))]

\* a request enters calculate_growth_rate: lines 298-300 read the job count
StartGrowth(t) ==
    /\ th[t].pc = "idle"
    /\ \E total_count \in TotalCounts :
          th' = [th EXCEPT ![t] = [pc |-> "drawing", total_count |-> total_count,
                                   start |-> rng, historical |-> <<>>, growth |-> 0]]
    /\ UNCHANGED <<core, call, rng>>

\* one turn of the loop of lines 310-319: a draw from the shared generator,
\* which moves on by one position
Draw(t) ==
    /\ th[t].pc = "drawing"
    /\ th[t].total_count > 0
    /\ Len(th[t].historical) < GROWTH_WINDOW
    /\ th' = [th EXCEPT ![t].historical =
                  Append(@, MonthCount(th[t].total_count, Variation(rng)))]
    /\ rng' = rng + 1
    /\ UNCHANGED <<core, call>>

\* the history is complete (or empty, for a skill without jobs) and
\* calculate_growth_rate returns
ReturnGrowth(t) ==
    /\ th[t].pc = "drawing"
    /\ th[t].total_count = 0 \/ Len(th[t].historical) = GROWTH_WINDOW
    /\ th' = [th EXCEPT ![t].growth = calculate_growth_rate(th[t].historical),
                        ![t].pc = "done"]
    /\ UNCHANGED <<core, call, rng>>

NextConc ==
    \/ \E t \in Threads : StartGrowth(t)
    \/ \E t \in Threads : Draw(t)
    \/ \E t \in Threads : ReturnGrowth(t)

SpecConc == Init /\ [][NextConc]_vars

\* C20: a call neither writes nor depends on process-wide state written by
\* another call: each of two concurrent calls returns, in every
\* interleaving, what it would return when run alone from the state it
\* started in
C20_Independent ==
    \A t \in Threads :
        th[t].pc = "done" =>
            /\ th[t].historical = AloneHistory(th[t].total_count, th[t].start)
            /\ th[t].growth =
                  calculate_growth_rate(AloneHistory(th[t].total_count, th[t].start))

----------------------------------------------------------------------------
(* The combiner, the feature matrix and the period labels *)

\* C21: in EnsembleForecaster.fit_forecast each of the H predictions is
\* floor(0.4 * seasonal_i + 0.6 * boosted_i) when both backends succeeded,
\* the one backend's value when exactly one succeeded, and the simple-trend
\* fallback only when both failed
C21_Combiner ==
    (fn = "fit_forecast" /\ ~ret.raised) =>
        LET p == ret.value.prophet
            x == ret.value.xgboost
            forecast == ret.value.forecast
        IN  /\ (p.ok /\ x.ok) =>
                  \A i \in 1..args.periods :
                      forecast[i] =
                          10 * ((4 * p.predictions[i] + 6 * x.predictions[i]) \div 100)
            /\ (p.ok /\ ~x.ok) => forecast = p.predictions
            /\ (~p.ok /\ x.ok) => forecast = x.predictions
            /\ (~p.ok /\ ~x.ok) => forecast = TrendFallback(args.series, args.periods)

\* C22: when both backends failed the step-i prediction (i = 1..H) is
\* max(0, last + i * slope), slope being the last value minus the value
\* before it
C22_FallbackSlope ==
    (/\ fn = "fit_forecast"
     /\ ~ret.raised
     /\ ~ret.value.prophet.ok
     /\ ~ret.value.xgboost.ok
     /\ Len(args.series) >= 2) =>
        LET n == Len(args.series)
            last == args.series[n]
            slope == args.series[n] - args.series[n - 1]
        IN  \A i \in 1..args.periods :
                ret.value.forecast[i] = 10 * Max(0, last + i * slope)

\* C23: every point of an ensemble forecast has both bounds: the seasonal
\* backend's interval of that step (as integers) when the seasonal backend
\* produced a result, else 80% and 120% of the point, truncated
C23_EnsembleBounds ==
    (Returned /\ LastCall = "ensemble") =>
        \A i \in 1..Len(result.forecast) :
            LET point == result.forecast[i]
                pred_value == ensemble_result.forecast[i]
                prophet == ensemble_result.prophet
            IN  /\ {"lower_bound", "upper_bound"} \subseteq DOMAIN point
                /\ IF prophet.ok
                   THEN /\ point.lower_bound = TruncDiv(prophet.lower[i], 10)
                        /\ point.upper_bound = TruncDiv(prophet.upper[i], 10)
                   ELSE /\ point.lower_bound = TruncDiv(8 * pred_value, 100)
                        /\ point.upper_bound = TruncDiv(12 * pred_value, 100)

\* XGBoost alone predicted 20: the bounds are synthesized as 16 and 24
C23_Witness ==
    /\ Returned
    /\ LastCall = "ensemble"
    /\ ~ensemble_result.prophet.ok
    /\ ensemble_result.xgboost.ok
    /\ result.forecast[1].predicted_count = 20
    /\ result.forecast[1].lower_bound = 16
    /\ result.forecast[1].upper_bound = 24

\* C24: for a series of length L create_features returns max(0, L - 12)
\* rows, one per position i >= 12 (0-based) in order, with lag_k =
\* value[i - k] for k in {1, 3, 6, 12} and momentum_k = value[i] -
\* value[i - k] for k in {3, 6}; nothing when L <= 12; the series is unchanged
C24_Features ==
    fn = "create_features" =>
        LET series == args.series
            L == Len(series)
            df == ret.value.df
        IN  /\ Len(df) = Max(0, L - 12)
            /\ L <= 12 => df = <<>>
            /\ ret.value.series = series
            /\ \A j \in 1..Len(df) :
                  LET p == 12 + j
                  IN  /\ df[j].index = p - 1
                      /\ df[j].value = series[p]
                      /\ df[j].lag_1 = series[p - 1]
                      /\ df[j].lag_3 = series[p - 3]
                      /\ df[j].lag_6 = series[p - 6]
                      /\ df[j].lag_12 = series[p - 12]
                      /\ df[j].momentum_3 = series[p] - series[p - 3]
                      /\ df[j].momentum_6 = series[p] - series[p - 6]

\* 14 points rising by 5 from 100: two rows, the second with lag_12 = 105
C24_Witness ==
    /\ fn = "create_features"
    /\ Len(args.series) = 14
    /\ args.series[1] = 100
    /\ args.series[14] = 165
    /\ Len(ret.value.df) = 2
    /\ ret.value.df[2].index = 13
    /\ ret.value.df[2].lag_12 = 105
    /\ ret.value.df[2].momentum_6 = 30

\* C25: in the recursive loop of XGBoostForecaster.fit_forecast, the feature
\* row used for step j >= 2 has lag_1 = the prediction of step j - 1, its
\* lag_3, lag_6 and lag_12 hold the value 3, 6 and 12 periods before step j
\* (a count of the series in tenths, or an earlier prediction), and no
\* feature of the row is missing.
C25_RecursiveLags ==
    (fn = "XGBoostForecaster.fit_forecast" /\ ret.value.result.ok) =>
        LET series == args.series
            L == Len(series)
            preds == ret.value.forecasts
            ext == [p \in 1..(L + Len(preds)) |->
                        IF p <= L THEN 10 * series[p] ELSE preds[p - L]]
        IN  \A j \in 2..args.periods :
                LET row == ret.value.last_features[j]
                IN  /\ row.lag_1 = preds[j - 1]
                    /\ \A k \in {3, 6, 12} :
                           row[IF k = 3 THEN "lag_3" ELSE
                               IF k = 6 THEN "lag_6" ELSE "lag_12"] = ext[L + j - k]
                    /\ NoNaN(row)

----------------------------------------------------------------------------
(* The calendar of datetime / timedelta / strftime, and the synthetic       *)
(* history of _get_skill_historical_data with the draws it takes from the   *)
(* generator.  A date is [year, month, day]; a label "%Y-%m" is             *)
(* [year, month], whose zero-padded text orders as (year, month) does.      *)

\* the first year of day counting (date.toordinal counts from a fixed day)
EpochYear == 2023

\* the year datetime.now() falls in
NowYear == 2025

IsLeap(y) == y % 4 = 0 /\ (y % 100 # 0 \/ y % 400 = 0)

DaysInMonth(y, m) ==
    IF m = 2 THEN (IF IsLeap(y) THEN 29 ELSE 28)
    ELSE IF m \in {4, 6, 9, 11} THEN 30 ELSE 31

\* days of the years EpochYear .. y - 1
DaysBeforeYear(y) ==
    365 * (y - EpochYear) + Cardinality({z \in EpochYear..(y - 1) : IsLeap(z)})

\* days of the months 1 .. m - 1 of year y
DaysBeforeMonth(y, m) == SumSeq([k \in 1..(m - 1) |-> DaysInMonth(y, k)])

\* date.toordinal(), counted from 1 January of EpochYear = 1
toordinal(d) == DaysBeforeYear(d.year) + DaysBeforeMonth(d.year, d.month) + d.day

\* date.fromordinal(n)
fromordinal(n) ==
    LET y == CHOOSE z \in EpochYear..(EpochYear + 6) :
                 DaysBeforeYear(z) < n /\ n <= DaysBeforeYear(z + 1)
        r == n - DaysBeforeYear(y)
        m == CHOOSE k \in 1..12 :
                 DaysBeforeMonth(y, k) < r /\ r <= DaysBeforeMonth(y, k) + DaysInMonth(y, k)
    IN  [year |-> y, month |-> m, day |-> r - DaysBeforeMonth(y, m)]

\* d + timedelta(days=n)
timedelta(d, n) == fromordinal(toordinal(d) + n)

\* d.strftime("%Y-%m")
strftime(d) == [year |-> d.year, month |-> d.month]

\* pd.to_datetime(label + '-01')
to_datetime(label) == [year |-> label.year, month |-> label.month, day |-> 1]

\* label a < label b, as text and as a period
LabelLess(a, b) == a.year < b.year \/ (a.year = b.year /\ a.month < b.month)

\* the calendar month after label a
NextMonth(a) ==
    IF a.month = 12 THEN [year |-> a.year + 1, month |-> 1]
    ELSE [year |-> a.year, month |-> a.month + 1]

\* the values datetime.now() takes: every day of NowYear
Nows == { fromordinal(n) :
              n \in (DaysBeforeYear(NowYear) + 1)..DaysBeforeYear(NowYear + 1) }

\* the months arguments the code passes: 6 (line 149) and the default 12
Months == {GROWTH_WINDOW, 12}

\* how far the generator's stream is followed
MaxDraws == 24

\* int((total_count / months) * variation)
month_count(total_count, months, variation) ==
    TruncDiv(total_count * variation, 100 * months)

\* mutant: the loop of lines 310-319 runs once more
get_skill_historical_data_more(total_count, months, now, start) ==
    IF total_count = 0 THEN <<>>
    ELSE LET base_date == timedelta(now, -(30 * months))
         IN  [k \in 1..(months + 1) |->
                 [month |-> strftime(timedelta(base_date, 30 * (k - 1))),
                  count |-> month_count(total_count, months, Variation(start + k - 1))]]

\* _get_skill_historical_data(skill, months) at time `now`, the generator
\* being at position `start`: nothing for a skill without jobs, else one
\* entry per i in range(months), 30 days apart from now - 30 * months days
get_skill_historical_data(total_count, months, now, start) ==
    IF total_count = 0 THEN <<>>
    ELSE LET base_date == timedelta(now, -(30 * months))
         IN  [k \in 1..months |->
                 [month |-> strftime(timedelta(base_date, 30 * (k - 1))),
                  count |-> month_count(total_count, months, Variation(start + k - 1))]]

\* the draws the call takes from the generator
draws(total_count, months) == IF total_count = 0 THEN 0 ELSE months

\* _get_skill_historical_data(skill_name, months)
Call_get_skill_historical_data ==
    /\ fn = "idle"
    /\ \E total_count \in TotalCounts, months \in Months, now \in Nows :
          /\ rng + draws(total_count, months) <= MaxDraws
          /\ fn' = "_get_skill_historical_data"
          /\ args' = [series |-> <<>>, total_count |-> total_count,
                      months |-> months, now |-> now]
          /\ ret' = [raised |-> FALSE,
                     value |-> [historical |->
                         get_skill_historical_data(total_count, months, now, rng)]]
          /\ rng' = rng + draws(total_count, months)
    /\ UNCHANGED <<core, th>>

\* the current dates of the requests that are followed to their end: the
\* first and the last day of every month
RequestNows == { d \in Nows : d.day \in {1, DaysInMonth(d.year, d.month)} }

\* forecast_skill_demand(skill_name, periods, use_ensemble): line 59 obtains
\* the 12-month history, lines 70-72 build the frame sorted by date (the
\* list is generated in date order, the sort leaves it as it is)
RequestSynthetic ==
    /\ pc = "idle"
    /\ fn = "idle"
    /\ \E total_count \in TotalCounts, now \in RequestNows :
          LET hist == get_skill_historical_data(total_count, 12, now, rng)
          IN  /\ rng + draws(total_count, 12) <= MaxDraws
              /\ historical' = [k \in 1..Len(hist) |-> hist[k].count]
              /\ fn' = "forecast_skill_demand"
              /\ args' = [series |-> <<>>, total_count |-> total_count, now |-> now,
                          month |-> [k \in 1..Len(hist) |-> hist[k].month]]
              /\ ret' = NoReturn
              /\ rng' = rng + draws(total_count, 12)
    /\ periods' \in 1..MaxPeriods
    /\ use_ensemble' \in BOOLEAN
    /\ calls' = <<>>
    /\ ensemble_result' = NoEnsemble
    /\ result' = NoResult
    /\ pc' = "called"
    /\ UNCHANGED <<env, th>>

\* d + pd.DateOffset(months=i): the same day i months on, cut to the length
\* of that month
DateOffset(d, i) ==
    LET idx == 12 * d.year + (d.month - 1) + i
        y == idx \div 12
        m == (idx % 12) + 1
    IN  [year |-> y, month |-> m, day |-> Min(d.day, DaysInMonth(y, m))]

\* pd.date_range(start, periods=n, freq='MS'): n month starts from the first
\* one that is not before start
date_range_MS(start, n) ==
    LET first == IF start.day = 1 THEN start
                 ELSE DateOffset([start EXCEPT !.day = 1], 1)
    IN  [k \in 1..n |-> DateOffset(first, k - 1)]

\* the rows Prophet's make_future_dataframe(periods, freq='MS') adds after
\* the history: date_range from the last date, the dates after it, the first
\* `periods` of them
make_future_dataframe(last_date, h) ==
    LET after(d) == toordinal(d) > toordinal(last_date)
        dates == SelectSeq(date_range_MS(last_date, h + 1), after)
    IN  SubSeq(dates, 1, Min(h, Len(dates)))

\* the 'month' of the forecast points on each path, from df['date'].max():
\* _ensemble_forecast (line 459), _prophet_forecast (lines 339-348),
\* _simple_forecast (lines 367-375)
forecast_months(path, last_date, h) ==
    IF path = "ensemble"
    THEN [k \in 1..h |-> strftime(DateOffset(last_date, k))]
    ELSE IF path = "prophet"
    THEN [k \in 1..h |-> strftime(make_future_dataframe(last_date, h)[k])]
    ELSE [k \in 1..h |-> strftime(timedelta(last_date, 30 * k))]

\* calculate_growth_rate(skill_name), the generator being at position
\* `start`: the growth of the six counts drawn from there
growth_at(total_count, start) == calculate_growth_rate(AloneHistory(total_count, start))

\* min_growth of get_trending_skills, in hundredths
MIN_GROWTH == 1000

\* the hotness handlers: GET /api/hotness/skill/{skill_name} (main.py
\* 497-516) and one turn of the loop of get_hottest_skills (forecasting.py
\* 509-519).  calculate_hotness_score draws its own history for the growth
\* it uses; calculate_growth_rate is then called again for the growth that
\* is reported.
Call_get_skill_hotness ==
    /\ fn = "idle"
    /\ pc = "idle"
    /\ \E name \in {"get_skill_hotness", "get_hottest_skills"},
          total_count \in TotalCounts,
          salary_premium \in SalaryPremiums, demand_score \in DemandScores :
          LET n == draws(total_count, GROWTH_WINDOW)
              hotness == calculate_hotness_score(total_count, growth_at(total_count, rng),
                                                 salary_premium, demand_score, DefaultWeights)
              growth == growth_at(total_count, rng + n)
          IN  /\ rng + 2 * n <= MaxDraws
              /\ fn' = name
              /\ args' = [series |-> <<>>, total_count |-> total_count,
                          salary_premium |-> salary_premium,
                          demand_score |-> demand_score]
              /\ ret' = [raised |-> FALSE,
                         value |-> [hotness |-> hotness, growth_rate |-> growth,
                                    count |-> total_count]]
              /\ rng' = rng + 2 * n
    /\ UNCHANGED <<core, th>>

\* one turn of the loop of get_trending_skills (forecasting.py 224-235):
\* the growth is computed first and reported; when it reaches min_growth the
\* hotness is computed, from a history of its own
Call_get_trending_skills ==
    /\ fn = "idle"
    /\ pc = "idle"
    /\ \E total_count \in TotalCounts \ {0},
          salary_premium \in SalaryPremiums, demand_score \in DemandScores :
          LET n == draws(total_count, GROWTH_WINDOW)
              growth == growth_at(total_count, rng)
              hotness == calculate_hotness_score(total_count, growth_at(total_count, rng + n),
                                                 salary_premium, demand_score, DefaultWeights)
              listed == growth >= MIN_GROWTH
          IN  /\ rng + 2 * n <= MaxDraws
              /\ fn' = "get_trending_skills"
              /\ args' = [series |-> <<>>, total_count |-> total_count,
                          salary_premium |-> salary_premium,
                          demand_score |-> demand_score]
              /\ ret' = [raised |-> FALSE,
                         value |-> [trending |->
                             IF listed
                             THEN << [hotness |-> hotness, growth_rate |-> growth,
                                      count |-> total_count] >>
                             ELSE <<>>]]
              /\ rng' = IF listed THEN rng + 2 * n ELSE rng + n
    /\ UNCHANGED <<core, th>>

\* the call is over; the generator stays where the call left it
ReturnSynth ==
    /\ fn # "idle"
    /\ pc = "idle"
    /\ fn' = "idle"
    /\ args' = NoArgs
    /\ ret' = NoReturn
    /\ UNCHANGED <<core, conc>>

\* the 3-to-5-point branch (ShortProphet, ShortStatistical) is left out: no
\* synthetic history enables it
NextSynth ==
    \/ Call_get_skill_historical_data
    \/ RequestSynthetic
    \/ ReturnInsufficient
    \/ EnsembleSucceeds
    \/ EnsembleRaises
    \/ FallbackProphet
    \/ FallbackStatistical
    \/ ProphetOnly
    \/ StatisticalOnly
    \/ Finish
    \/ Call_get_skill_hotness
    \/ Call_get_trending_skills
    \/ ReturnSynth

SpecSynth == Init /\ [][NextSynth]_vars

\* C27: the labels of the list _get_skill_historical_data returns are
\* strictly ascending (so pairwise distinct), for every current date and
\* both months values
C27_LabelsAscending ==
    fn = "_get_skill_historical_data" =>
        LET hist == ret.value.historical
        IN  \A i \in 1..Len(hist), j \in 1..Len(hist) :
                i < j => LabelLess(hist[i].month, hist[j].month)

\* the last period of the history a request was given
last_month == args.month[Len(args.month)]

\* C28: the labels of the forecast points of a returned forecast are the
\* `periods` consecutive calendar months after the last historical month,
\* whichever of _ensemble_forecast, _prophet_forecast and _simple_forecast
\* built the points
C28_ForecastMonths ==
    (fn = "forecast_skill_demand" /\ pc = "done" /\ result.kind = "forecast") =>
        LET h == Len(result.forecast)
            months == forecast_months(LastCall, to_datetime(last_month), h)
        IN  \A k \in 1..h :
                months[k] = NextMonth(IF k = 1 THEN last_month ELSE months[k - 1])

\* C29: a history obtained by forecast_skill_demand has 0 or 12 points; the
\* insufficient-data result reports actual = 0; the test of the 3-to-5-point
\* branch (ensemble selected, fewer than 6 points) never holds for a history
\* that passed line 61; no returned forecast has a result of the boosted
\* backend in it
C29_SyntheticHistory ==
    fn = "forecast_skill_demand" =>
        /\ Len(historical) \in {0, 12}
        /\ (pc = "done" /\ result.kind = "error") => result.actual = 0
        /\ (pc = "called" /\ ~Insufficient(historical)) => EnoughForEnsemble(historical)
        /\ (pc = "done" /\ result.kind = "forecast") =>
               /\ ~ensemble_result.xgboost.ok
               /\ Len(result.historical) = 12

\* the ensemble path returned for a 12-month history with xgboost installed
\* and Prophet fitted: the points are Prophet's alone
C29_Witness ==
    /\ fn = "forecast_skill_demand"
    /\ pc = "done"
    /\ result.kind = "forecast"
    /\ LastCall = "ensemble"
    /\ xgb_import = "ok"
    /\ Len(historical) = 12
    /\ historical[1] = 42
    /\ ensemble_result.prophet.ok
    /\ ~ensemble_result.xgboost.ok
    /\ ensemble_result.forecast = ensemble_result.prophet.predictions

\* the hotness calculate_hotness_score gives for the skill of the call when
\* its growth is g
hotness_of(g) ==
    calculate_hotness_score(args.total_count, g, args.salary_premium,
                            args.demand_score, DefaultWeights)

\* C30: where a hotness and a growth rate are reported together, the
\* hotness is the one computed from the reported growth rate, and the same
\* call made again on the same data returns the same pair
C30_SameGrowth ==
    /\ fn \in {"get_skill_hotness", "get_hottest_skills"} =>
           /\ ret.value.hotness = hotness_of(ret.value.growth_rate)
           /\ ret.value.hotness = hotness_of(growth_at(args.total_count, rng))
           /\ ret.value.growth_rate =
                  growth_at(args.total_count, rng + draws(args.total_count, GROWTH_WINDOW))
    /\ fn = "get_trending_skills" =>
           \A k \in 1..Len(ret.value.trending) :
               ret.value.trending[k].hotness =
                   hotness_of(ret.value.trending[k].growth_rate)

====
